---- MODULE Spec2Model ----
(***************************************************************************)
(* Outfit-completion engine of src/agent/main.go: slot resolution          *)
(* (requiredSlots, missingSlots), per-slot budget, the constrained vector  *)
(* search (searchHits), the composer (runCompleteOutfit) and the           *)
(* explanation generator (explainOutfitWithFallback).                      *)
(*                                                                         *)
(* Money is an exact rational [num, den] (den > 0); the code uses float64, *)
(* whose rounding is not modelled.  Distances are integers in thousandths. *)
(* Strings built with fmt.Sprintf are kept as records of their arguments.  *)
(***************************************************************************)
EXTENDS Integers, Sequences, FiniteSets, TLC

VARIABLES
    pc,         \* position of the request being served
    req,        \* CompleteOutfitReq (LimitPerSlot as normalised so far)
    store,      \* rows of product_embeddings
    missing,    \* runCompleteOutfit: missing
    budget,     \* runCompleteOutfit: perSlotBudget
    results,    \* runCompleteOutfit: results
    resp,       \* returned CompleteOutfitResp
    retErr,     \* returned error is non-nil
    calls,      \* arguments of every searchHits call made, in order
    failures,   \* collaborator failures that happened, in order
    posted,     \* the request as the handler decoded it
    searches,   \* what every searchHits call got from openAIEmbed and returned
    call,       \* Slot Resolver function under call, with its arguments
    out,        \* its result
    eResp,      \* explainOutfitWithFallback: the response to explain
    chat,       \* what openAIChat answers (or would answer) to the prompt
    chatCalls,  \* number of openAIChat calls made
    bullets,    \* explainOutfitWithFallback: returned bullets
    explainErr, \* explainOutfitWithFallback: returned error is non-nil
    path        \* explainOutfitWithFallback: the return statement taken

composerVars ==
    <<req, store, missing, budget, results, resp, retErr, calls, failures,
      posted, searches>>
resolverVars == <<call, out>>
explainVars == <<eResp, chat, chatCalls, bullets, explainErr, path>>
vars == <<pc, composerVars, resolverVars, explainVars>>

(***************************************************************************)
(* Bounds and input domains                                                *)
(***************************************************************************)
MaxCart == 3
MaxResults == 4
MaxRaw == 4

Missions == {"smart_casual", "business_casual", "outdoor_rain", "party"}
CartValues == {"top", "bottom", "shoes", "outerwear"}
Budgets == {0, 100, -6}
MinEcos == {0, 50, -1}
Limits == {0, 1}

SeqsUpTo(S, n) == UNION {[1..k -> S] : k \in 0..n}

Range(s) == {s[i] : i \in 1..Len(s)}

(***************************************************************************)
(* Rationals                                                               *)
(***************************************************************************)
Rat(n, d) == [num |-> n, den |-> d]
RatLe(a, b) == a.num * b.den <= b.num * a.den
RatEq(a, b) == a.num * b.den = b.num * a.den
RatPos(a) == a.num > 0

(***************************************************************************)
(* SQL parameters: NULL or a value                                         *)
(***************************************************************************)
SqlNull == [isNull |-> TRUE]
SqlVal(v) == [isNull |-> FALSE, v |-> v]

nullInt(v) == IF v <= 0 THEN SqlNull ELSE SqlVal(v)

\* variant: the value is always passed, never NULL
nullNumAlwaysValue(v) == SqlVal(v)

nullNum(v) == IF ~RatPos(v) THEN SqlNull ELSE SqlVal(v)

nullText(s) == IF s = "" THEN SqlNull ELSE SqlVal(s)

(***************************************************************************)
(* Slot Resolver                                                           *)
(***************************************************************************)
\* variant: the default case returns no slots
requiredSlotsNoDefault(mission) ==
    CASE mission = "business_casual" -> <<"top", "bottom", "shoes">>
      [] mission = "outdoor_rain" -> <<"outerwear", "bottom", "shoes">>
      [] mission = "smart_casual" -> <<"top", "bottom", "shoes">>
      [] OTHER -> <<>>

requiredSlots(mission) ==
    CASE mission = "business_casual" -> <<"top", "bottom", "shoes">>
      [] mission = "outdoor_rain" -> <<"outerwear", "bottom", "shoes">>
      [] OTHER -> <<"top", "bottom", "shoes">>

RECURSIVE missingFrom(_, _, _)
missingFrom(required, set, i) ==
    IF i > Len(required) THEN <<>>
    ELSE IF required[i] \notin set
         THEN <<required[i]>> \o missingFrom(required, set, i + 1)
         ELSE missingFrom(required, set, i + 1)

\* variant: set[s] = !set[s], so a slot listed twice in present counts as absent
missingSlotsToggle(required, present) ==
    missingFrom(required,
        {x \in Range(present) :
            Cardinality({i \in 1..Len(present) : present[i] = x}) % 2 = 1}, 1)

missingSlots(required, present) == missingFrom(required, Range(present), 1)

(***************************************************************************)
(* Vector Store contents (table product_embeddings)                        *)
(***************************************************************************)
Product(id, category, eco, price, hasEmb, vec) ==
    [id |-> id, category |-> category, eco |-> eco, price |-> price,
     hasEmb |-> hasEmb, vec |-> vec]

Products ==
    { Product("p1", "top", 80, 30, TRUE, 120),
      Product("p2", "top", 40, 60, TRUE, 124),
      Product("p3", "top", 90, 20, FALSE, 0),
      Product("p4", "bottom", 60, 45, TRUE, 300),
      Product("p5", "shoes", -2, 20, TRUE, 50),
      Product("p6", "shoes", 50, 120, TRUE, 50),
      Product("p7", "outerwear", 70, 33, TRUE, 700) }

Stores == {Products, {}}

ProductOf(st, id) == CHOOSE p \in st : p.id = id

(***************************************************************************)
(* Collaborator behaviours                                                 *)
(***************************************************************************)
\* openAIEmbed: an error, or a vector (possibly of length 0)
EmbedOutcomes ==
    {[kind |-> "err"]} \cup {[kind |-> "ok", vec |-> v] : v \in {<<>>, <<0>>, <<200>>}}

\* pool.Query / rows.Next / rows.Scan: Query returns an error; or the rows end
\* early on an error kept in rows.Err() after `at` rows; or row `at` fails to scan
DbOutcomes ==
    {[kind |-> "ok"], [kind |-> "query_err"]}
    \cup {[kind |-> "rows_err", at |-> k] : k \in 0..1}
    \cup {[kind |-> "scan_err", at |-> k] : k \in 1..2}

(***************************************************************************)
(* Search Engine                                                           *)
(***************************************************************************)
Abs(x) == IF x < 0 THEN -x ELSE x
Min(a, b) == IF a <= b THEN a ELSE b

\* embedding <-> $1::vector for one-dimensional vectors
Dist(p, q) == Abs(p.vec - q[1])

\* math.Round(d*100)/100 on thousandths, d >= 0
RoundDist(d) == ((d + 5) \div 10) * 10

\* the WHERE clause of the query of searchHits
Matches(p, minEco, maxPrice, category) ==
    /\ p.hasEmb
    /\ (minEco.isNull \/ p.eco >= minEco.v)
    /\ (maxPrice.isNull \/ RatLe(Rat(p.price, 1), maxPrice.v))
    /\ (category.isNull \/ p.category = category.v)

IsSortedByDist(s, q) ==
    \A i \in 1..(Len(s) - 1) : Dist(s[i], q) <= Dist(s[i + 1], q)

\* ORDER BY distance LIMIT limit: every order of the matching rows the store
\* may produce (ties in any order), cut to the limit
QueryRows(st, q, limit, minEco, maxPrice, category) ==
    LET M == {p \in st : Matches(p, minEco, maxPrice, category)}
        n == Cardinality(M)
        Orders == {s \in [1..n -> M] :
                      /\ \A i, j \in 1..n : i # j => s[i] # s[j]
                      /\ IsSortedByDist(s, q)}
    IN {SubSeq(s, 1, Min(limit, n)) : s \in Orders}

NoReason == [kind |-> "none"]

\* variant: the distance is rounded before the score is computed from it
ScanHitRoundsFirst(p, q) ==
    [ProductID |-> p.id, EcoScore |-> p.eco, PriceGBP |-> p.price,
     Distance |-> RoundDist(Dist(p, q)),
     Similarity |-> [expNeg |-> RoundDist(Dist(p, q))],
     Reason |-> NoReason]

\* one iteration of the rows.Next loop; Similarity [expNeg |-> d] stands for
\* math.Exp(-d) * 100, d the distance as scanned, in thousandths
ScanHit(p, q) ==
    [ProductID |-> p.id, EcoScore |-> p.eco, PriceGBP |-> p.price,
     Distance |-> RoundDist(Dist(p, q)), Similarity |-> [expNeg |-> Dist(p, q)],
     Reason |-> NoReason]

NilHits == [isNil |-> TRUE, elems |-> <<>>]
HitList(s) == [isNil |-> FALSE, elems |-> s]

\* var hits []Hit; hits = append(hits, h) for each row
AppendAll(rows, q) ==
    IF Len(rows) = 0 THEN NilHits
    ELSE HitList([i \in 1..Len(rows) |-> ScanHit(rows[i], q)])

\* the rows pool.Query can serve for the call (lines 712-723); none when the
\* embedding call failed or gave no dimensions
poolQuery(st, emb, limit, maxPrice, minEco, category) ==
    IF emb.kind = "err" \/ Len(emb.vec) = 0 THEN {<<>>}
    ELSE QueryRows(st, emb.vec, limit, nullInt(minEco), nullNum(maxPrice),
                   nullText(category))

\* what the store can do for a query: an empty query vector is rejected
\* (by Query, or while the rows are read, where the error stays in rows.Err());
\* otherwise the rows are served, and a failure may cut them short
DbCan(emb, db, rows) ==
    IF emb.kind = "err" THEN db = [kind |-> "ok"]
    ELSE IF Len(emb.vec) = 0
         THEN db \in {[kind |-> "query_err"], [kind |-> "rows_err", at |-> 0]}
    ELSE db.kind \in {"rows_err", "scan_err"} => db.at <= Len(rows)

\* searchHits, given what the collaborators do during the call:
\* emb is openAIEmbed's outcome, db the store's, rows the rows of the query
searchHits(emb, db, rows) ==
    IF emb.kind = "err" THEN [hits |-> NilHits, err |-> TRUE]
    ELSE IF db.kind = "query_err" THEN [hits |-> NilHits, err |-> TRUE]
    ELSE IF db.kind = "scan_err" THEN [hits |-> NilHits, err |-> TRUE]
    ELSE IF db.kind = "rows_err"
         THEN [hits |-> AppendAll(SubSeq(rows, 1, db.at), emb.vec), err |-> FALSE]
    ELSE [hits |-> AppendAll(rows, emb.vec), err |-> FALSE]

\* the collaborator failure of a call, "" when there is none
FailureOf(emb, db) ==
    IF emb.kind = "err" THEN "embed_err"
    ELSE IF db.kind = "ok" THEN ""
    ELSE db.kind

(***************************************************************************)
(* Outfit Composer                                                         *)
(***************************************************************************)
Requests ==
    [Mission : Missions, BudgetGBP : Budgets, MinEcoScore : MinEcos,
     CartSlots : SeqsUpTo(CartValues, MaxCart), LimitPerSlot : Limits]

EmptyResp == [MissingSlots |-> <<>>, Results |-> <<>>]

\* variant: the budget is not split
perSlotBudgetWhole(b, n) == Rat(b, 1)

\* lines 827-830
perSlotBudget(b, n) == IF n > 0 /\ b > 0 THEN Rat(b, n) ELSE Rat(b, 1)

\* variant: a nil hit list is kept
NeverNullSkipped(hits) == hits

\* lines 841-843
NeverNull(hits) == IF hits.isNil THEN HitList(<<>>) ELSE hits

\* variant: the result of a slot without hits does not name its slot
SlotResultUnnamed(slot, hits, slotBudget, minEco) ==
    IF Len(hits.elems) = 0
    THEN [Slot |-> "", Hits |-> hits,
          Reason |-> [kind |-> "no_products", slot |-> slot,
                      slotBudget |-> slotBudget, minEco |-> minEco]]
    ELSE [Slot |-> slot, Hits |-> hits, Reason |-> NoReason]

\* variant: the loop ranges over copies of the hits (for _, h := range hits),
\* so the rationale never reaches the list
SlotResultRangeCopy(slot, hits, slotBudget, minEco) ==
    IF Len(hits.elems) = 0
    THEN [Slot |-> slot, Hits |-> hits,
          Reason |-> [kind |-> "no_products", slot |-> slot,
                      slotBudget |-> slotBudget, minEco |-> minEco]]
    ELSE [Slot |-> slot, Hits |-> hits, Reason |-> NoReason]

\* lines 845-856
SlotResult(slot, hits, slotBudget, minEco) ==
    IF Len(hits.elems) = 0
    THEN [Slot |-> slot, Hits |-> hits,
          Reason |-> [kind |-> "no_products", slot |-> slot,
                      slotBudget |-> slotBudget, minEco |-> minEco]]
    ELSE [Slot |-> slot,
          Hits |-> HitList([i \in 1..Len(hits.elems) |->
                      [hits.elems[i] EXCEPT !.Reason =
                          [kind |-> "matches", slot |-> slot,
                           eco |-> hits.elems[i].EcoScore,
                           price |-> hits.elems[i].PriceGBP,
                           slotBudget |-> slotBudget]]]),
          Reason |-> NoReason]

ComposerIdle ==
    /\ req = [Mission |-> "", BudgetGBP |-> 0, MinEcoScore |-> 0,
              CartSlots |-> <<>>, LimitPerSlot |-> 0]
    /\ store = {}
    /\ missing = <<>>
    /\ budget = Rat(0, 1)
    /\ results = <<>>
    /\ resp = EmptyResp
    /\ retErr = FALSE
    /\ calls = <<>>
    /\ failures = <<>>
    /\ posted = req
    /\ searches = <<>>

ResolverIdle ==
    /\ call = [fn |-> "none"]
    /\ out = <<>>

ExplainIdle ==
    /\ eResp = EmptyResp
    /\ chat = [kind |-> "none"]
    /\ chatCalls = 0
    /\ bullets = <<>>
    /\ explainErr = FALSE
    /\ path = "none"

Init ==
    /\ pc = "start"
    /\ req \in Requests
    /\ store \in Stores
    /\ missing = <<>>
    /\ budget = Rat(0, 1)
    /\ results = <<>>
    /\ resp = EmptyResp
    /\ retErr = FALSE
    /\ calls = <<>>
    /\ failures = <<>>
    /\ posted = req
    /\ searches = <<>>
    /\ ResolverIdle
    /\ ExplainIdle

\* variant: the limit is used as posted
defaultLimitUnset(l) == l

\* lines 820-822
defaultLimit(l) == IF l <= 0 THEN 3 ELSE l

\* runCompleteOutfit, lines 820-832
Start ==
    /\ pc = "start"
    /\ LET limit == defaultLimit(req.LimitPerSlot)
           m == missingSlots(requiredSlots(req.Mission), req.CartSlots)
       IN /\ req' = [req EXCEPT !.LimitPerSlot = limit]
          /\ missing' = m
          /\ budget' = perSlotBudget(req.BudgetGBP, Len(m))
    /\ results' = <<>>
    /\ pc' = "loop"
    /\ UNCHANGED <<store, resp, retErr, calls, failures, posted, searches,
                   resolverVars, explainVars>>

\* one iteration of the loop of lines 834-857, the search included
SearchSlot ==
    /\ pc = "loop"
    /\ Len(results) < Len(missing)
    /\ LET slot == missing[Len(results) + 1] IN
       \E emb \in EmbedOutcomes, db \in DbOutcomes :
       \E rows \in poolQuery(store, emb, req.LimitPerSlot, budget,
                             req.MinEcoScore, slot) :
          /\ DbCan(emb, db, rows)
          /\ LET r == searchHits(emb, db, rows) IN
             /\ calls' = Append(calls,
                    [query |-> <<req.Mission, slot>>, limit |-> req.LimitPerSlot,
                     maxPrice |-> budget, minEco |-> req.MinEcoScore,
                     category |-> slot])
             /\ failures' = IF FailureOf(emb, db) = "" THEN failures
                            ELSE Append(failures, FailureOf(emb, db))
             /\ searches' = Append(searches,
                    [emb |-> emb, hits |-> r.hits, err |-> r.err])
             /\ IF r.err
                THEN /\ resp' = EmptyResp
                     /\ retErr' = TRUE
                     /\ pc' = "done"
                     /\ UNCHANGED results
                ELSE /\ results' = Append(results,
                            SlotResult(slot, NeverNull(r.hits), budget,
                                       req.MinEcoScore))
                     /\ UNCHANGED <<resp, retErr, pc>>
    /\ UNCHANGED <<req, store, missing, budget, posted, resolverVars, explainVars>>

\* line 859
Return ==
    /\ pc = "loop"
    /\ Len(results) = Len(missing)
    /\ resp' = [MissingSlots |-> missing, Results |-> results]
    /\ retErr' = FALSE
    /\ pc' = "done"
    /\ UNCHANGED <<req, store, missing, budget, results, calls, failures,
                   posted, searches,
                   resolverVars, explainVars>>

Next == Start \/ SearchSlot \/ Return

Spec == Init /\ [][Next]_vars

(***************************************************************************)
(* Slot Resolver called on its own: any mission string, any required and   *)
(* present lists                                                           *)
(***************************************************************************)
MissionStrings == Missions \cup {"", "Business_Casual"}

ResolverCalls ==
    {[fn |-> "requiredSlots", mission |-> m] : m \in MissionStrings}
    \cup {[fn |-> "missingSlots", required |-> r, present |-> p] :
            r \in SeqsUpTo(CartValues, MaxCart), p \in SeqsUpTo(CartValues, MaxCart)}

InitResolver ==
    /\ pc = "call"
    /\ call \in ResolverCalls
    /\ out = <<>>
    /\ ComposerIdle
    /\ ExplainIdle

ApplyRequiredSlots ==
    /\ pc = "call"
    /\ call.fn = "requiredSlots"
    /\ out' = requiredSlots(call.mission)
    /\ pc' = "returned"
    /\ UNCHANGED <<call, composerVars, explainVars>>

ApplyMissingSlots ==
    /\ pc = "call"
    /\ call.fn = "missingSlots"
    /\ out' = missingSlots(call.required, call.present)
    /\ pc' = "returned"
    /\ UNCHANGED <<call, composerVars, explainVars>>

NextResolver == ApplyRequiredSlots \/ ApplyMissingSlots

SpecResolver == InitResolver /\ [][NextResolver]_vars

(***************************************************************************)
(* Explanation Generator                                                   *)
(*                                                                         *)
(* A chat reply is a text of tokens: the three-backquote fence, a newline,  *)
(* a word that is no JSON, and V, the text of one JSON value val.          *)
(***************************************************************************)
Fence == "FENCE"
Newline == "\n"
Word == "json"
Value == "V"
Tokens == {Fence, Newline, Word, Value}

JStr(x) == [t |-> "str", s |-> x]
JNull == [t |-> "null"]
JNum == [t |-> "num"]
JArr(es) == [t |-> "arr", elems |-> es]
JObj(has, b) == [t |-> "obj", hasBullets |-> has, bullets |-> b]

Strs(n) == [i \in 1..n |-> JStr(<<"b", i>>)]

JsonValues ==
    { JArr(Strs(2)), JArr(Strs(7)), JArr(<<>>),
      JArr(<<JStr(<<"b", 1>>), JNull>>), JArr(<<JStr(<<"b", 1>>), JNum>>),
      JObj(TRUE, JArr(Strs(3))), JObj(FALSE, JNull), JNull }

ChatOutcomes ==
    {[kind |-> "err"]}
    \cup {[kind |-> "ok", toks |-> t, val |-> v] :
            t \in {x \in SeqsUpTo(Tokens, MaxRaw) : Value \in Range(x)},
            v \in JsonValues}
    \cup {[kind |-> "ok", toks |-> t, val |-> JNull] :
            t \in {x \in SeqsUpTo(Tokens, MaxRaw) : Value \notin Range(x)}}

\* strings.TrimSpace
RECURSIVE TrimLeft(_)
TrimLeft(s) ==
    IF Len(s) > 0 /\ s[1] = Newline THEN TrimLeft(Tail(s)) ELSE s

RECURSIVE TrimRight(_)
TrimRight(s) ==
    IF Len(s) > 0 /\ s[Len(s)] = Newline
    THEN TrimRight(SubSeq(s, 1, Len(s) - 1)) ELSE s

TrimSpace(s) == TrimRight(TrimLeft(s))

\* strings.Index / strings.LastIndex as 1-based positions, 0 when absent
Index(s, tok) ==
    IF tok \in Range(s)
    THEN CHOOSE i \in 1..Len(s) : s[i] = tok /\ \A j \in 1..(i - 1) : s[j] # tok
    ELSE 0

LastIndex(s, tok) ==
    IF tok \in Range(s)
    THEN CHOOSE i \in 1..Len(s) : s[i] = tok /\ \A j \in (i + 1)..Len(s) : s[j] # tok
    ELSE 0

\* parseBullets, lines 950-962
StripFence(toks) ==
    LET s == TrimSpace(toks) IN
    IF Len(s) > 0 /\ s[1] = Fence
    THEN LET i == Index(s, Newline)
             a == IF i > 0 THEN SubSeq(s, i + 1, Len(s)) ELSE s
             j == LastIndex(a, Fence)
             b == IF j > 0 THEN SubSeq(a, 1, j - 1) ELSE a
         IN TrimSpace(b)
    ELSE s

TextBullet(x) == [kind |-> "text", text |-> x]

\* json.Unmarshal of a value into []string: null gives a nil slice, an array
\* gives one string per element, a null element leaving "", any other
\* element or value is an error
DecodeStrings(v) ==
    IF v.t = "null" THEN [ok |-> TRUE, val |-> <<>>]
    ELSE IF v.t = "arr" /\ \A i \in 1..Len(v.elems) : v.elems[i].t \in {"str", "null"}
    THEN [ok |-> TRUE,
          val |-> [i \in 1..Len(v.elems) |->
                     IF v.elems[i].t = "str" THEN TextBullet(v.elems[i].s)
                     ELSE TextBullet(<<>>)]]
    ELSE [ok |-> FALSE, val |-> <<>>]

\* json.Unmarshal of a value into struct{Bullets []string} (field "bullets")
DecodeWrap(v) ==
    IF v.t = "null" THEN [ok |-> TRUE, val |-> <<>>]
    ELSE IF v.t = "obj"
    THEN IF v.hasBullets THEN DecodeStrings(v.bullets) ELSE [ok |-> TRUE, val |-> <<>>]
    ELSE [ok |-> FALSE, val |-> <<>>]

\* parseBullets, lines 964-976: the stripped text is JSON only when it is
\* exactly one value
parseBullets(raw) ==
    LET s == StripFence(raw.toks)
        isJson == s = <<Value>>
        direct == DecodeStrings(raw.val)
        wrap == DecodeWrap(raw.val)
    IN IF isJson /\ direct.ok /\ Len(direct.val) > 0
       THEN [bullets |-> direct.val, err |-> FALSE]
       ELSE IF isJson /\ wrap.ok /\ Len(wrap.val) > 0
       THEN [bullets |-> wrap.val, err |-> FALSE]
       ELSE [bullets |-> <<>>, err |-> TRUE]

\* variant: the list is not cut to five
fallbackExplainUncut(r) ==
    <<[kind |-> "missing", slots |-> r.MissingSlots], [kind |-> "method"]>>
    \o [i \in 1..Len(r.Results) |->
          IF Len(r.Results[i].Hits.elems) = 0
          THEN [kind |-> "no_results", slot |-> r.Results[i].Slot,
                reason |-> r.Results[i].Reason]
          ELSE [kind |-> "top_pick", slot |-> r.Results[i].Slot,
                eco |-> r.Results[i].Hits.elems[1].EcoScore,
                price |-> r.Results[i].Hits.elems[1].PriceGBP]]

\* fallbackExplain, lines 884-903
fallbackExplain(r) ==
    LET o == <<[kind |-> "missing", slots |-> r.MissingSlots], [kind |-> "method"]>>
             \o [i \in 1..Len(r.Results) |->
                   IF Len(r.Results[i].Hits.elems) = 0
                   THEN [kind |-> "no_results", slot |-> r.Results[i].Slot,
                         reason |-> r.Results[i].Reason]
                   ELSE [kind |-> "top_pick", slot |-> r.Results[i].Slot,
                         eco |-> r.Results[i].Hits.elems[1].EcoScore,
                         price |-> r.Results[i].Hits.elems[1].PriceGBP]]
    IN IF Len(o) > 5 THEN SubSeq(o, 1, 5) ELSE o

\* openAIExplain, lines 931-946, given the outcome of openAIChat
openAIExplain(c) ==
    IF c.kind = "err" THEN [bullets |-> <<>>, err |-> TRUE]
    ELSE LET p == parseBullets(c) IN
         IF p.err THEN [bullets |-> <<>>, err |-> TRUE]
         ELSE IF Len(p.bullets) > 5
         THEN [bullets |-> SubSeq(p.bullets, 1, 5), err |-> FALSE]
         ELSE [bullets |-> p.bullets, err |-> FALSE]

AnyHits(r) == \E i \in 1..Len(r.Results) : Len(r.Results[i].Hits.elems) > 0

\* variant: the collaborator is asked even when no slot has a hit
explainAlwaysAsks(r, c) ==
    LET e == openAIExplain(c) IN
    IF e.err \/ Len(e.bullets) = 0
    THEN [bullets |-> fallbackExplain(r), err |-> FALSE, asked |-> 1,
          path |-> "fallback"]
    ELSE [bullets |-> e.bullets, err |-> FALSE, asked |-> 1, path |-> "chat"]

\* variant: the collaborator's error is returned
explainPropagatesError(r, c) ==
    IF ~AnyHits(r)
    THEN [bullets |-> fallbackExplain(r), err |-> FALSE, asked |-> 0,
          path |-> "no_hits"]
    ELSE LET e == openAIExplain(c) IN
         IF e.err THEN [bullets |-> <<>>, err |-> TRUE, asked |-> 1, path |-> "error"]
         ELSE IF Len(e.bullets) = 0
         THEN [bullets |-> fallbackExplain(r), err |-> FALSE, asked |-> 1,
               path |-> "fallback"]
         ELSE [bullets |-> e.bullets, err |-> FALSE, asked |-> 1, path |-> "chat"]

\* explainOutfitWithFallback, lines 862-882, given the outcome of openAIChat c
\* should it be asked; asked counts the calls made
explainOutfitWithFallback(r, c) ==
    IF ~AnyHits(r)
    THEN [bullets |-> fallbackExplain(r), err |-> FALSE, asked |-> 0,
          path |-> "no_hits"]
    ELSE LET e == openAIExplain(c) IN
         IF e.err \/ Len(e.bullets) = 0
         THEN [bullets |-> fallbackExplain(r), err |-> FALSE, asked |-> 1,
               path |-> "fallback"]
         ELSE [bullets |-> e.bullets, err |-> FALSE, asked |-> 1, path |-> "chat"]

\* the responses a client may post to /explain-outfit
SampleHit ==
    [ProductID |-> "p4", EcoScore |-> 60, PriceGBP |-> 45, Distance |-> 300,
     Similarity |-> [expNeg |-> 300],
     Reason |-> [kind |-> "matches", slot |-> "bottom", eco |-> 60, price |-> 45,
                 slotBudget |-> Rat(100, 2)]]

SlotRecsPosted ==
    { [Slot |-> "shoes", Hits |-> HitList(<<>>),
       Reason |-> [kind |-> "no_products", slot |-> "shoes",
                   slotBudget |-> Rat(100, 2), minEco |-> 50]],
      [Slot |-> "bottom", Hits |-> HitList(<<SampleHit>>), Reason |-> NoReason] }

RespsPosted ==
    [MissingSlots : {<<>>, <<"bottom", "shoes">>},
     Results : SeqsUpTo(SlotRecsPosted, MaxResults)]

InitExplain ==
    /\ pc = "posted"
    /\ eResp \in RespsPosted
    /\ chat = [kind |-> "none"]
    /\ chatCalls = 0
    /\ bullets = <<>>
    /\ explainErr = FALSE
    /\ path = "none"
    /\ ComposerIdle
    /\ ResolverIdle

\* the call of the /explain-outfit handler to explainOutfitWithFallback
Explain ==
    /\ pc = "posted"
    /\ \E c \in ChatOutcomes :
          LET e == explainOutfitWithFallback(eResp, c) IN
          /\ chat' = c
          /\ chatCalls' = chatCalls + e.asked
          /\ bullets' = e.bullets
          /\ explainErr' = e.err
          /\ path' = e.path
    /\ pc' = "explained"
    /\ UNCHANGED <<eResp, composerVars, resolverVars>>

NextExplain == Explain

SpecExplain == InitExplain /\ [][NextExplain]_vars

(***************************************************************************)
(* Properties of the Outfit Composer (specification Spec)                  *)
(***************************************************************************)
Returned == pc = "done" /\ ~retErr

SlotsOf(rs) == [i \in 1..Len(rs) |-> rs[i].Slot]

HasDuplicates(s) == \E i, j \in 1..Len(s) : i # j /\ s[i] = s[j]

\* C1: in every response returned without error, the slots of Results are
\* the MissingSlots list element for element (same length, same order),
\* which is the missing slots of the request, each exactly once
C1_ResultsFollowMissing ==
    Returned =>
        /\ SlotsOf(resp.Results) = resp.MissingSlots
        /\ resp.MissingSlots = missing
        /\ ~HasDuplicates(SlotsOf(resp.Results))

C1_Witness ==
    /\ Returned
    /\ Len(resp.Results) >= 2
    /\ \E i \in 1..Len(resp.Results) : Len(resp.Results[i].Hits.elems) = 0

\* C2: when a search of the request failed (embedding provider error, vector
\* store query or scan error), the composer returns an error with the
\* empty response
C2_SearchFailureAborts ==
    (pc = "done" /\ failures # <<>>) => (retErr /\ resp = EmptyResp)

\* C4: with N > 0 missing slots, every search gets maxPrice = B / N when
\* B > 0 and 0 when B = 0, the same for all slots of the request
C4_PerSlotBudget ==
    \A i \in 1..Len(calls) :
        /\ Len(missing) > 0
        /\ req.BudgetGBP > 0 =>
              /\ calls[i].maxPrice.den > 0
              /\ calls[i].maxPrice.num * Len(missing)
                    = req.BudgetGBP * calls[i].maxPrice.den
        /\ req.BudgetGBP = 0 => calls[i].maxPrice.num = 0
        /\ calls[i].maxPrice = calls[1].maxPrice

C4_Witness ==
    /\ Len(calls) = 3
    /\ req.BudgetGBP > 0
    /\ calls[3].maxPrice.num * 3 = req.BudgetGBP * calls[3].maxPrice.den

\* the products a search for `slot` may return under the filters as stated:
\* embedding present, category = slot, eco >= minEco only when minEco > 0,
\* price <= maxPrice only when maxPrice > 0
Eligible(slot) ==
    {p \in store :
        /\ p.hasEmb
        /\ p.category = slot
        /\ req.MinEcoScore > 0 => p.eco >= req.MinEcoScore
        /\ RatPos(budget) => RatLe(Rat(p.price, 1), budget)}

\* C5: every hit of a slot search is an eligible product of the slot; and
\* no other filter is applied: when no collaborator failed, a slot has as
\* many hits as it has eligible products, up to the limit
C5_HitsSatisfyFilters ==
    \A i \in 1..Len(results) :
        /\ \A k \in 1..Len(results[i].Hits.elems) :
              \E p \in Eligible(results[i].Slot) :
                 /\ p.id = results[i].Hits.elems[k].ProductID
                 /\ p.eco = results[i].Hits.elems[k].EcoScore
                 /\ p.price = results[i].Hits.elems[k].PriceGBP
        /\ failures = <<>> =>
              Len(results[i].Hits.elems)
                 = Min(req.LimitPerSlot, Cardinality(Eligible(results[i].Slot)))

\* the eco floor is applied and the price ceiling is not: budget 0, a hit
\* of price > 0, and a product of the slot left out for its eco score
C5_Witness ==
    /\ req.MinEcoScore > 0
    /\ req.BudgetGBP = 0
    /\ \E i \in 1..Len(results) :
          /\ \E k \in 1..Len(results[i].Hits.elems) :
                results[i].Hits.elems[k].PriceGBP > 0
          /\ \E p \in store :
                /\ p.hasEmb
                /\ p.category = results[i].Slot
                /\ p.eco < req.MinEcoScore

\* C9: in every response returned without error, each Slot Result's Hits is
\* an explicit list, never nil
C9_HitsNeverNil ==
    Returned => \A i \in 1..Len(resp.Results) : ~resp.Results[i].Hits.isNil

C9_Witness ==
    /\ Returned
    /\ failures = <<>>
    /\ \E i \in 1..Len(resp.Results) :
          /\ Len(resp.Results[i].Hits.elems) = 0
          /\ ~resp.Results[i].Hits.isNil

\* the per-slot budget of the request as posted, for n missing slots
SlotBudgetOf(n) ==
    IF n > 0 /\ posted.BudgetGBP > 0 THEN Rat(posted.BudgetGBP, n)
    ELSE Rat(posted.BudgetGBP, 1)

\* C12: in every response returned without error a Slot Result has a reason
\* exactly when it has no hits, and the reason names the slot, the per-slot
\* budget and the eco floor of the request; every hit of a Slot Result
\* carries a rationale naming the slot, its eco score, its price and the
\* per-slot budget
C12_ReasonsAndRationales ==
    Returned =>
        \A i \in 1..Len(resp.Results) :
            LET r == resp.Results[i]
                b == SlotBudgetOf(Len(resp.MissingSlots))
            IN /\ (r.Reason # NoReason) <=> (Len(r.Hits.elems) = 0)
               /\ Len(r.Hits.elems) = 0 =>
                     /\ r.Reason.kind = "no_products"
                     /\ r.Reason.slot = resp.MissingSlots[i]
                     /\ r.Reason.slot = r.Slot
                     /\ RatEq(r.Reason.slotBudget, b)
                     /\ r.Reason.minEco = posted.MinEcoScore
               /\ \A k \in 1..Len(r.Hits.elems) :
                     LET h == r.Hits.elems[k] IN
                     /\ h.Reason.kind = "matches"
                     /\ h.Reason.slot = r.Slot
                     /\ h.Reason.eco = h.EcoScore
                     /\ h.Reason.eco = ProductOf(store, h.ProductID).eco
                     /\ h.Reason.price = h.PriceGBP
                     /\ h.Reason.price = ProductOf(store, h.ProductID).price
                     /\ RatEq(h.Reason.slotBudget, b)

\* a response with a slot without hits and a slot with a hit, the budget split
C12_Witness ==
    /\ Returned
    /\ posted.BudgetGBP > 0
    /\ Len(resp.Results) >= 2
    /\ \E i, j \in 1..Len(resp.Results) :
          /\ Len(resp.Results[i].Hits.elems) = 0
          /\ resp.Results[i].Reason.kind = "no_products"
          /\ Len(resp.Results[j].Hits.elems) >= 1
          /\ resp.Results[j].Hits.elems[1].Reason.kind = "matches"

\* the searchHits call the composer is to make for missing slot i
ExpectedCall(i) ==
    [query |-> <<posted.Mission, missing[i]>>,
     limit |-> IF posted.LimitPerSlot <= 0 THEN 3 ELSE posted.LimitPerSlot,
     maxPrice |-> SlotBudgetOf(Len(missing)),
     minEco |-> posted.MinEcoScore,
     category |-> missing[i]]

\* C13: the searches made are, in order, one per missing slot with query
\* "<mission> <slot>", the limit (3 when the posted one is <= 0), the
\* per-slot budget, the eco floor and the slot as filter; a run that returns
\* without error has made exactly one per missing slot, and none, with no
\* results, when no slot is missing
C13_OneSearchPerMissingSlot ==
    /\ Len(calls) <= Len(missing)
    /\ \A i \in 1..Len(calls) : calls[i] = ExpectedCall(i)
    /\ Returned =>
          /\ missing = SelectSeq(requiredSlots(posted.Mission),
                                 LAMBDA x : x \notin Range(posted.CartSlots))
          /\ Len(calls) = Len(missing)
          /\ Len(searches) = Len(missing)
          /\ Len(missing) = 0 => (calls = <<>> /\ resp.Results = <<>>)

\* three searches made without a failure, the posted limit 0 replaced by 3
C13_Witness ==
    /\ Returned
    /\ failures = <<>>
    /\ posted.LimitPerSlot = 0
    /\ Len(calls) = 3
    /\ calls[3].limit = 3
    /\ calls[3].query = <<posted.Mission, "shoes">>

\* no slot is missing: no search, no results
C13_NothingMissing ==
    /\ Returned
    /\ Len(missing) = 0
    /\ calls = <<>>
    /\ resp.Results = <<>>

\* C14: a search whose embedding call errors or yields an empty vector
\* returns an error and no hits, never a hit list as a success
C14_EmbeddingFailureFailsSearch ==
    \A i \in 1..Len(searches) :
        (searches[i].emb.kind = "err" \/ Len(searches[i].emb.vec) = 0)
        => (searches[i].err /\ searches[i].hits = NilHits)

\* the order of two scores exp(-a)*100 and exp(-b)*100 as real numbers
\* (exp is strictly decreasing; the rounding of float64 is not modelled)
ScoreGt(x, y) == x.expNeg < y.expNeg

\* the distance the store computed for hit k of result i, before rounding
StoreDist(i, k) ==
    Dist(ProductOf(store, results[i].Hits.elems[k].ProductID), searches[i].emb.vec)

\* C11: within every Slot Result the hits are in non-decreasing distance
\* (as computed by the store, and as rounded for display), and of two hits
\* of a result the one with the smaller distance has the strictly greater
\* score, also when both distances round to the same two decimals
C11_OrderedByDistance ==
    \A i \in 1..Len(results) :
        LET h == results[i].Hits.elems IN
        /\ \A a, b \in 1..Len(h) :
              a < b => /\ StoreDist(i, a) <= StoreDist(i, b)
                       /\ h[a].Distance <= h[b].Distance
        /\ \A a, b \in 1..Len(h) :
              /\ StoreDist(i, a) < StoreDist(i, b) =>
                    ScoreGt(h[a].Similarity, h[b].Similarity)
              /\ h[a].Distance < h[b].Distance =>
                    ScoreGt(h[a].Similarity, h[b].Similarity)

\* two hits of one result, at different distances that round to the same
\* displayed distance
C11_Witness ==
    \E i \in 1..Len(results) :
        /\ Len(results[i].Hits.elems) = 2
        /\ StoreDist(i, 1) < StoreDist(i, 2)
        /\ results[i].Hits.elems[1].Distance = results[i].Hits.elems[2].Distance
        /\ ScoreGt(results[i].Hits.elems[1].Similarity,
                   results[i].Hits.elems[2].Similarity)

(***************************************************************************)
(* Properties of the Slot Resolver (specification SpecResolver)            *)
(***************************************************************************)
ReturnedFrom(fn) == pc = "returned" /\ call.fn = fn

NotPresent(s) == s \notin Range(call.present)

\* missingSlots returns the subsequence of required of the slots not in
\* present, in the required order
ExactSubsequence ==
    /\ out = SelectSeq(call.required, NotPresent)
    /\ \A i \in 1..Len(out) : out[i] \notin Range(call.present)
    /\ \A r \in Range(call.required) :
          r \notin Range(call.present) => r \in Range(out)

\* C3 as stated: for every required and present list the output is that
\* subsequence and has no duplicates
C3_AsStated ==
    ReturnedFrom("missingSlots") => (ExactSubsequence /\ ~HasDuplicates(out))

\* C3: for every required and present list the output is the subsequence of
\* required of the slots not in present, in the required order; it has no
\* duplicates when required has none
C3_MissingSlots ==
    ReturnedFrom("missingSlots") =>
        /\ ExactSubsequence
        /\ ~HasDuplicates(call.required) => ~HasDuplicates(out)

C3_Witness ==
    /\ ReturnedFrom("missingSlots")
    /\ HasDuplicates(call.present)
    /\ ~HasDuplicates(call.required)
    /\ Len(out) = 2
    /\ Len(call.required) = 3

\* C10: for every mission other than business_casual and outdoor_rain,
\* requiredSlots returns [top, bottom, shoes]
C10_DefaultMission ==
    (ReturnedFrom("requiredSlots")
        /\ call.mission \notin {"business_casual", "outdoor_rain"})
    => out = <<"top", "bottom", "shoes">>

C10_Witness ==
    /\ ReturnedFrom("requiredSlots")
    /\ call.mission = ""
    /\ out = <<"top", "bottom", "shoes">>

(***************************************************************************)
(* Properties of the Explanation Generator (specification SpecExplain)     *)
(***************************************************************************)
Explained == pc = "explained"

\* C6: when no Slot Result of the response has a hit (also when it has no
\* Slot Results), openAIChat is not called and the bullets are
\* fallbackExplain(response), whatever openAIChat would have answered
C6_NoHitsNoChat ==
    (Explained /\ \A i \in 1..Len(eResp.Results) :
                     Len(eResp.Results[i].Hits.elems) = 0)
    => /\ chatCalls = 0
       /\ bullets = fallbackExplain(eResp)
       /\ ~explainErr

\* openAIChat would have answered two usable bullets, and is not asked
C6_Witness ==
    /\ Explained
    /\ Len(eResp.Results) = 2
    /\ ~AnyHits(eResp)
    /\ chat.kind = "ok"
    /\ chat.toks = <<Value>>
    /\ chat.val = JArr(Strs(2))
    /\ chatCalls = 0
    /\ Len(bullets) = 4

\* a value that decodes into a non-empty []string: an array of at least one
\* element, each a string (or null, which encoding/json leaves as "")
NonEmptyStringArray(v) ==
    /\ v.t = "arr"
    /\ Len(v.elems) > 0
    /\ \A i \in 1..Len(v.elems) : v.elems[i].t \in {"str", "null"}

\* the reply, its code fence stripped, is such an array or an object whose
\* bullets field is one
DecodesToBullets(c) ==
    /\ StripFence(c.toks) = <<Value>>
    /\ \/ NonEmptyStringArray(c.val)
       \/ (c.val.t = "obj" /\ c.val.hasBullets /\ NonEmptyStringArray(c.val.bullets))

\* C7: no error is ever returned; when openAIChat is called and errors, or
\* its reply does not decode to bullets, the result is fallbackExplain(response)
C7_NeverAnError ==
    Explained =>
        /\ ~explainErr
        /\ (chatCalls = 1 /\ (chat.kind = "err" \/ ~DecodesToBullets(chat)))
              => bullets = fallbackExplain(eResp)

\* a fenced reply whose value does not decode, answered by the fallback
C7_Witness ==
    /\ Explained
    /\ chatCalls = 1
    /\ chat.kind = "ok"
    /\ chat.toks = <<Fence, Newline, Value, Fence>>
    /\ chat.val = JArr(<<JStr(<<"b", 1>>), JNum>>)
    /\ ~explainErr
    /\ bullets = fallbackExplain(eResp)

\* C8: between 1 and 5 bullets are returned; the fallback returns the first
\* min(5, 2 + number of Slot Results) of: the missing-slots line, the method
\* line, one line per Slot Result
C8_BulletCount ==
    Explained =>
        /\ Len(bullets) >= 1
        /\ Len(bullets) <= 5
        /\ path \in {"no_hits", "fallback"} =>
              /\ Len(bullets) >= 2
              /\ Len(bullets) = Min(5, 2 + Len(eResp.Results))
              /\ bullets[1] = [kind |-> "missing", slots |-> eResp.MissingSlots]
              /\ bullets[2] = [kind |-> "method"]
              /\ \A i \in 3..Len(bullets) :
                    /\ bullets[i].slot = eResp.Results[i - 2].Slot
                    /\ bullets[i].kind =
                          IF Len(eResp.Results[i - 2].Hits.elems) = 0
                          THEN "no_results" ELSE "top_pick"

\* the fallback cuts its list: four Slot Results, five bullets
C8_Witness ==
    /\ Explained
    /\ path = "fallback"
    /\ Len(eResp.Results) = 4
    /\ Len(bullets) = 5

====
